---- MODULE Spec2Model ----
(***************************************************************************)
(* Model of trading_api.py: the statistics of TradingAnalyzer, the SQLite  *)
(* table of DatabaseManager, the refresh cycle update_metrics with its two *)
(* triggers (scheduled_update, manual_update) and the read endpoints.      *)
(*                                                                         *)
(* Floats are fixed-point integers: the float x is the integer x * Unit.   *)
(* NaN is a float of its own; NULL is what SQLite stores for it.           *)
(***************************************************************************)
EXTENDS Integers, Sequences, FiniteSets, TLC

\* ------------------------------------------------------------------ bounds

\* Refresh cycles started in one behaviour (scheduled and on-demand together).
MaxCycles == 2

\* Longest list of pairs in the body of POST /leverage-adjustment.
MaxLen == 2

\* Longest sequence of save_metrics calls made on their own.
MaxUpserts == 3

\* The leverage adjustments recommend_leverage is called with on its own:
\* 0.1, 0.1025, ... in AdjSteps steps of 0.0025, up to 2.0.
AdjSteps == 760

\* ------------------------------------------------------------------ floats

\* One unit of the fixed-point representation: the float 1.0.
Unit == 10 ^ 4

\* float('nan'): what pandas gives for the std of fewer than two values or the
\* correlation with a constant series. Every comparison with it is False.
NaN == -99999999

\* SQL NULL, read back by sqlite3 as None.
NULL == -88888888

\* a > b on floats: False when either is NaN.
Gt(a, b) == a # NaN /\ b # NaN /\ a > b

\* a / b on floats, with b # 0.
FDiv(a, b) == IF a = NaN \/ b = NaN THEN NaN ELSE (a * Unit) \div b

Abs(x) == IF x < 0 THEN -x ELSE x

RECURSIVE SqrtBetween(_, _, _)
SqrtBetween(n, lo, hi) ==
    IF lo >= hi THEN lo
    ELSE LET mid == (lo + hi + 1) \div 2
         IN  IF mid * mid <= n THEN SqrtBetween(n, mid, hi)
                               ELSE SqrtBetween(n, lo, mid - 1)

\* The integer square root (np.sqrt on the fixed-point grid).
Sqrt(n) == SqrtBetween(n, 0, 46340)

RECURSIVE SumSeq(_)
SumSeq(s) == IF s = <<>> THEN 0 ELSE Head(s) + SumSeq(Tail(s))

\* ------------------------------------------------------------------ market data

\* The instruments of the model. UNKNOWN is a symbol the exchange does not list.
BTC == "BTC/USDT:USDT"
ETH == "ETH/USDT:USDT"
NEWLY == "NEW/USDT:USDT"
UNKNOWN == "UNKNOWN/USDT"

DEFAULT_PAIRS == <<BTC, ETH>>

Bar(t, high, low, close) == [t |-> t, high |-> high, low |-> low, close |-> close]

\* Eleven daily bars around a close c[t], with a fixed intraday range.
Bars(closes, range) ==
    [t \in 1..Len(closes) |-> Bar(t, closes[t] + range, closes[t] - range, closes[t])]

\* The price histories fetch_ohlcv can return, by symbol: a calm and a volatile
\* market of eleven bars, a newly listed instrument with a single bar, and a
\* market whose price never moved.
Calm == Bars(<<1000, 1010, 1000, 1020, 1010, 1030, 1020, 1040, 1030, 1050, 1040>>, 20)
Wild == Bars(<<1000, 1100, 1000, 1120, 1000, 1110, 990, 1100, 1000, 1120, 1010>>, 80)
Single == <<Bar(11, 520, 490, 500)>>
Flat == Bars(<<200, 200, 200, 200, 200, 200, 200, 200, 200, 200, 200>>, 0)

\* The empty DataFrame.
NoData == <<>>

Feed(symbol) ==
    CASE symbol = ETH -> {Calm}
      [] symbol = BTC -> {Wild}
      [] symbol = NEWLY -> {Single, Flat}
      [] OTHER -> {}

\* get_ohlcv_data: the bars of the symbol, or the empty DataFrame when
\* fetch_ohlcv raises (network error, rate limit, unknown symbol).
get_ohlcv_data(symbol) == Feed(symbol) \cup {NoData}

\* ------------------------------------------------------------------ TradingAnalyzer

\* A pandas Series: a sequence of <<index, value>>.
SeriesValues(s) == [i \in 1..Len(s) |-> s[i][2]]

\* df['close'].pct_change().dropna(): the first bar's change is NaN and dropped.
calculate_daily_returns(df) ==
    [i \in 1..(IF Len(df) = 0 THEN 0 ELSE Len(df) - 1) |->
        <<df[i + 1].t, ((df[i + 1].close - df[i].close) * Unit) \div df[i].close>>]

Mean(xs) == SumSeq(xs) \div Len(xs)

\* The sample variance (ddof = 1) of two or more values, in Unit^2.
Variance(xs) ==
    LET m == Mean(xs)
    IN  SumSeq([i \in 1..Len(xs) |-> (xs[i] - m) * (xs[i] - m)]) \div (Len(xs) - 1)

\* Series.std(): NaN for fewer than two values.
Std(xs) == IF Len(xs) < 2 THEN NaN ELSE Sqrt(Variance(xs))

\* returns.std() * np.sqrt(365)
calculate_volatility(returns) ==
    LET xs == SeriesValues(returns)
    IN  IF Std(xs) = NaN THEN NaN ELSE Sqrt(365 * Variance(xs))

\* ((df['high'] - df['low']) / df['close']).mean()
calculate_avg_daily_movement(df) ==
    Mean([i \in 1..Len(df) |-> ((df[i].high - df[i].low) * Unit) \div df[i].close])

\* calculate_leverage_adjustment without the clamp of its last line.
calculate_leverage_adjustment_unclamped(pair_volatility, eth_volatility, pair_avg_movement, eth_avg_movement) ==
    LET volatility_ratio ==
            IF Gt(eth_volatility, 0) THEN FDiv(pair_volatility, eth_volatility) ELSE Unit
        movement_ratio ==
            IF Gt(eth_avg_movement, 0) THEN FDiv(pair_avg_movement, eth_avg_movement) ELSE Unit
        risk_ratio ==
            IF volatility_ratio = NaN \/ movement_ratio = NaN THEN NaN
            ELSE (volatility_ratio + movement_ratio) \div 2
    IN  IF Gt(risk_ratio, 0) THEN FDiv(Unit, risk_ratio) ELSE Unit

calculate_leverage_adjustment(pair_volatility, eth_volatility, pair_avg_movement, eth_avg_movement) ==
    LET volatility_ratio ==
            IF Gt(eth_volatility, 0) THEN FDiv(pair_volatility, eth_volatility) ELSE Unit
        movement_ratio ==
            IF Gt(eth_avg_movement, 0) THEN FDiv(pair_avg_movement, eth_avg_movement) ELSE Unit
        risk_ratio ==
            IF volatility_ratio = NaN \/ movement_ratio = NaN THEN NaN
            ELSE (volatility_ratio + movement_ratio) \div 2
        leverage_adjustment ==
            IF Gt(risk_ratio, 0) THEN FDiv(Unit, risk_ratio) ELSE Unit
        capped == IF leverage_adjustment > 2 * Unit THEN 2 * Unit ELSE leverage_adjustment
    IN  IF capped > Unit \div 10 THEN capped ELSE Unit \div 10

\* pd.concat([returns1, returns2], axis=1).dropna(): the rows whose index is in both.
Aligned(returns1, returns2) ==
    LET both == {i \in 1..Len(returns1) :
                    \E j \in 1..Len(returns2) : returns2[j][1] = returns1[i][1]}
        pick(i) == CHOOSE j \in 1..Len(returns2) : returns2[j][1] = returns1[i][1]
        RECURSIVE rows(_)
        rows(i) == IF i > Len(returns1) THEN <<>>
                   ELSE IF i \in both
                        THEN <<<<returns1[i][2], returns2[pick(i)][2]>>>> \o rows(i + 1)
                        ELSE rows(i + 1)
    IN  rows(1)

\* Series.corr: Pearson's r = cov / (std_x * std_y), NaN when either series is
\* constant. The two standard deviations are taken with one more digit.
Pearson(xs, ys) ==
    LET mx == Mean(xs)
        my == Mean(ys)
        n == Len(xs)
        cov == SumSeq([i \in 1..n |-> (xs[i] - mx) * (ys[i] - my)]) \div (n - 1)
        sx == Sqrt(100 * Variance(xs))
        sy == Sqrt(100 * Variance(ys))
    IN  IF sx = 0 \/ sy = 0 THEN NaN
        ELSE ((((cov * 1000) \div sx) * 1000) \div sy)

\* calculate_correlation with a least count of 5 aligned points.
calculate_correlation_from_five(returns1, returns2) ==
    LET aligned_data == Aligned(returns1, returns2)
    IN  IF Len(aligned_data) < 5 THEN 0
        ELSE Pearson([i \in 1..Len(aligned_data) |-> aligned_data[i][1]],
                     [i \in 1..Len(aligned_data) |-> aligned_data[i][2]])

calculate_correlation(returns1, returns2) ==
    LET aligned_data == Aligned(returns1, returns2)
    IN  IF Len(aligned_data) < 10 THEN 0
        ELSE Pearson([i \in 1..Len(aligned_data) |-> aligned_data[i][1]],
                     [i \in 1..Len(aligned_data) |-> aligned_data[i][2]])

leverage_levels == <<1, 2, 3, 5, 10, 20, 25, 50>>

\* NearestLevel as the last of the levels at the least distance.
NearestLevel_last_on_tie(num) ==
    LET dist(i) == Abs(leverage_levels[i] * 10 * Unit - num)
        best == CHOOSE i \in 1..Len(leverage_levels) :
                    /\ \A j \in 1..Len(leverage_levels) : dist(i) <= dist(j)
                    /\ \A j \in (i + 1)..Len(leverage_levels) : dist(j) > dist(i)
    IN  leverage_levels[best]

\* min(leverage_levels, key=lambda x: abs(x - adjusted_leverage)): the first of
\* the levels at the least distance. adjusted_leverage is num / (10 * Unit).
NearestLevel(num) ==
    LET dist(i) == Abs(leverage_levels[i] * 10 * Unit - num)
        best == CHOOSE i \in 1..Len(leverage_levels) :
                    /\ \A j \in 1..Len(leverage_levels) : dist(i) <= dist(j)
                    /\ \A j \in 1..(i - 1) : dist(j) > dist(i)
    IN  leverage_levels[best]

\* recommend_leverage when it rounds the adjusted leverage down to an integer
\* and leaves the ladder out.
recommend_leverage_unsnapped(leverage_adjustment, volatility_ratio) ==
    LET base_leverage == 10
        adjusted_leverage == base_leverage * leverage_adjustment
        penalised ==
            IF Gt(volatility_ratio, (15 * Unit) \div 10) THEN adjusted_leverage * 6
            ELSE IF Gt(volatility_ratio, (12 * Unit) \div 10) THEN adjusted_leverage * 8
            ELSE adjusted_leverage * 10
        recommended == penalised \div (10 * Unit)
        capped == IF recommended > 25 THEN 25 ELSE recommended
    IN  IF capped < 1 THEN 1 ELSE capped

recommend_leverage(leverage_adjustment, volatility_ratio) ==
    LET base_leverage == 10
        adjusted_leverage == base_leverage * leverage_adjustment
        penalised ==
            IF Gt(volatility_ratio, (15 * Unit) \div 10) THEN adjusted_leverage * 6
            ELSE IF Gt(volatility_ratio, (12 * Unit) \div 10) THEN adjusted_leverage * 8
            ELSE adjusted_leverage * 10
        recommended == NearestLevel(penalised)
        capped == IF recommended > 25 THEN 25 ELSE recommended
    IN  IF capped < 1 THEN 1 ELSE capped

\* EthData with another default volatility (1.0 for 0.8).
EthData_other_default(eth_df) ==
    IF eth_df = NoData
    THEN [volatility |-> Unit,
          avg_movement |-> (5 * Unit) \div 100,
          returns |-> <<<<0, 0>>>>]
    ELSE [volatility |-> calculate_volatility(calculate_daily_returns(eth_df)),
          avg_movement |-> calculate_avg_daily_movement(eth_df),
          returns |-> calculate_daily_returns(eth_df)]

\* The ETH reference of one cycle: from the benchmark's bars, or the defaults
\* when the fetch gave none.
EthData(eth_df) ==
    IF eth_df = NoData
    THEN [volatility |-> (8 * Unit) \div 10,
          avg_movement |-> (5 * Unit) \div 100,
          returns |-> <<<<0, 0>>>>]
    ELSE [volatility |-> calculate_volatility(calculate_daily_returns(eth_df)),
          avg_movement |-> calculate_avg_daily_movement(eth_df),
          returns |-> calculate_daily_returns(eth_df)]

\* analyze_pair once the pair's bars are fetched and are not empty.
analyze_pair(pair, eth_data, pair_df, now) ==
    LET pair_returns == calculate_daily_returns(pair_df)
        pair_volatility == calculate_volatility(pair_returns)
        pair_avg_movement == calculate_avg_daily_movement(pair_df)
        volatility_ratio ==
            IF Gt(eth_data.volatility, 0) THEN FDiv(pair_volatility, eth_data.volatility)
            ELSE Unit
        leverage_adjustment ==
            calculate_leverage_adjustment(pair_volatility, eth_data.volatility,
                                          pair_avg_movement, eth_data.avg_movement)
        correlation == calculate_correlation(pair_returns, eth_data.returns)
    IN  [pair |-> pair,
         leverage_adjustment |-> leverage_adjustment,
         volatility_ratio |-> volatility_ratio,
         correlation_with_eth |-> correlation,
         avg_daily_movement |-> pair_avg_movement,
         recommended_leverage |-> recommend_leverage(leverage_adjustment, volatility_ratio),
         last_updated |-> now]

\* ------------------------------------------------------------------ DatabaseManager

\* A datetime as sqlite3 stores it in the TIMESTAMP column: its ISO text.
isoformat(t) == <<"iso", t>>

\* datetime.fromisoformat
fromisoformat(text) == text[2]

\* A REAL column: SQLite stores a NaN as NULL.
Real(x) == IF x = NaN THEN NULL ELSE x

\* The row that INSERT OR REPLACE writes for a PairMetrics.
Row(metrics) ==
    [pair |-> metrics.pair,
     leverage_adjustment |-> Real(metrics.leverage_adjustment),
     volatility_ratio |-> Real(metrics.volatility_ratio),
     correlation_with_eth |-> Real(metrics.correlation_with_eth),
     avg_daily_movement |-> Real(metrics.avg_daily_movement),
     recommended_leverage |-> metrics.recommended_leverage,
     last_updated |-> isoformat(metrics.last_updated)]

\* save_metrics as an UPDATE that leaves last_updated out when the pair has a row.
save_metrics_keeps_timestamp(table, metrics) ==
    [p \in DOMAIN table \cup {metrics.pair} |->
        IF p # metrics.pair THEN table[p]
        ELSE IF p \in DOMAIN table
             THEN [Row(metrics) EXCEPT !.last_updated = table[p].last_updated]
             ELSE Row(metrics)]

\* save_metrics as DELETE FROM pair_metrics followed by the INSERT.
save_metrics_replaces_table(table, metrics) ==
    [p \in {metrics.pair} |-> Row(metrics)]

\* save_metrics followed by an UPDATE of last_updated on every row.
save_metrics_touches_all(table, metrics) ==
    [p \in DOMAIN table \cup {metrics.pair} |->
        IF p = metrics.pair THEN Row(metrics)
        ELSE [table[p] EXCEPT !.last_updated = isoformat(metrics.last_updated)]]

\* save_metrics as INSERT OR IGNORE: a pair that has a row keeps it.
save_metrics_ignores(table, metrics) ==
    [p \in DOMAIN table \cup {metrics.pair} |->
        IF p \in DOMAIN table THEN table[p] ELSE Row(metrics)]

\* save_metrics: the table pair_metrics (a function of its primary key) after
\* the committed INSERT OR REPLACE.
save_metrics(table, metrics) ==
    [p \in DOMAIN table \cup {metrics.pair} |->
        IF p = metrics.pair THEN Row(metrics) ELSE table[p]]

Range(seq) == {seq[i] : i \in 1..Len(seq)}

\* get_metrics as SELECT * FROM pair_metrics, without the WHERE clause.
get_metrics_all(table, pairs) ==
    [p \in DOMAIN table |->
        [table[p] EXCEPT !.last_updated = fromisoformat(table[p].last_updated)]]

\* get_metrics: the PairMetrics of the requested pairs that have a row.
get_metrics(table, pairs) ==
    [p \in Range(pairs) \cap DOMAIN table |->
        [table[p] EXCEPT !.last_updated = fromisoformat(table[p].last_updated)]]

get_all_pairs(table) == DOMAIN table

\* ------------------------------------------------------------------ state

Threads == {"scheduler", "http"}

\* The symbols a refresh or a lookup can name.
Symbols == {BTC, ETH, NEWLY, UNKNOWN}

RECURSIVE SeqsUpTo(_, _)
SeqsUpTo(S, n) ==
    IF n = 0 THEN {<<>>}
    ELSE LET shorter == SeqsUpTo(S, n - 1)
         IN  shorter \cup {Append(q, x) : q \in shorter, x \in S}

\* The bodies of POST /update-metrics: a list of pairs (empty, one pair, two
\* pairs, one pair twice), or no "pairs" key, which stands for DEFAULT_PAIRS.
UpdateRequests == {<<>>, <<NEWLY>>, <<NEWLY, BTC>>, <<BTC, BTC>>, DEFAULT_PAIRS}

\* The bodies of POST /leverage-adjustment.
LookupRequests == SeqsUpTo({BTC, NEWLY, UNKNOWN}, MaxLen)

NoEth == [volatility |-> 0, avg_movement |-> 0, returns |-> <<>>]

NoReply == [code |-> 0, status |-> "", pairs_updated |-> 0, logged |-> ""]

NoResponse == [endpoint |-> "", code |-> 0]

VARIABLES
    store,      \* the table pair_metrics: pair -> row
    now,        \* the clock datetime.now() reads
    cycles,     \* refresh cycles started so far
    pc,         \* per thread: where its update_metrics stands
    pairs,      \* per thread: the list update_metrics was called with
    idx,        \* per thread: the position of analyze_all_pairs in pairs
    eth_data,   \* per thread: the ETH reference of the cycle
    results,    \* per thread: the dict analyze_all_pairs builds, in insertion order
    saved,      \* per thread: how many of results are saved
    reply,      \* per thread: what the trigger answered and logged
    resp,       \* the response of a read endpoint the client has not read yet
    \* History, read by no action:
    degraded,   \* per thread: the ETH fetch of this cycle returned no bars
    fetched,    \* per thread: the pairs whose fetch returned bars in this cycle
    upserted,   \* per thread: the pairs this cycle has committed a row for
    store_failed, \* per thread: a save_metrics of this cycle raised
    passed,     \* every PairMetrics a committed save_metrics call was given
    \* One call of a function of the module on its own, outside the service:
    call,       \* the function and its arguments
    returned,   \* the call has returned
    out         \* what it returned

cycle == <<pc, pairs, idx, eth_data, results, saved, reply, degraded, fetched,
           upserted, store_failed>>

\* The call of a function on its own.
calc == <<call, returned, out>>

vars == <<store, now, cycles, cycle, resp, passed, calc>>

\* No function is called on its own.
NoCall == [fn |-> "none"]

\* The service after start-up: init_database has created an empty table and no
\* trigger has fired.
Start ==
    /\ store = <<>>
    /\ now = 0
    /\ cycles = 0
    /\ pc = [r \in Threads |-> "idle"]
    /\ pairs = [r \in Threads |-> <<>>]
    /\ idx = [r \in Threads |-> 1]
    /\ eth_data = [r \in Threads |-> NoEth]
    /\ results = [r \in Threads |-> <<>>]
    /\ saved = [r \in Threads |-> 0]
    /\ reply = [r \in Threads |-> NoReply]
    /\ resp = NoResponse
    /\ degraded = [r \in Threads |-> FALSE]
    /\ fetched = [r \in Threads |-> {}]
    /\ upserted = [r \in Threads |-> {}]
    /\ store_failed = [r \in Threads |-> FALSE]
    /\ passed = {}

Init ==
    /\ Start
    /\ call = NoCall
    /\ returned = FALSE
    /\ out = 0

\* ------------------------------------------------------------------ the refresh cycle

\* update_metrics is entered: nothing guards the entry.
Begin(r, list) ==
    /\ pc[r] = "idle"
    /\ cycles < MaxCycles
    /\ cycles' = cycles + 1
    /\ now' = now + 1
    /\ pc' = [pc EXCEPT ![r] = "benchmark"]
    /\ pairs' = [pairs EXCEPT ![r] = list]
    /\ UNCHANGED <<store, idx, eth_data, results, saved, reply, resp, degraded,
                   fetched, upserted, store_failed, passed, calc>>

\* The cron job: update_metrics() on DEFAULT_PAIRS.
scheduled_update(r) ==
    /\ r = "scheduler"
    /\ Begin(r, DEFAULT_PAIRS)

\* POST /update-metrics: update_metrics(pairs) on the body's list.
manual_update(r, list) ==
    /\ r = "http"
    /\ Begin(r, list)

\* analyze_all_pairs, the ETH reference.
FetchBenchmark(r) ==
    /\ pc[r] = "benchmark"
    /\ \E eth_df \in get_ohlcv_data(ETH) :
           /\ eth_data' = [eth_data EXCEPT ![r] = EthData(eth_df)]
           /\ degraded' = [degraded EXCEPT ![r] = (eth_df = NoData)]
    /\ pc' = [pc EXCEPT ![r] = IF pairs[r] = <<>> THEN "save" ELSE "analyze"]
    /\ UNCHANGED <<store, now, cycles, pairs, idx, results, saved, reply, resp,
                   fetched, upserted, store_failed, passed, calc>>

\* results[pair] = metrics on a dict: a new key is appended, an old one keeps its place.
Put(dict, metrics) ==
    IF \E i \in 1..Len(dict) : dict[i].pair = metrics.pair
    THEN [i \in 1..Len(dict) |-> IF dict[i].pair = metrics.pair THEN metrics ELSE dict[i]]
    ELSE Append(dict, metrics)

\* AfterPair when a pair without bars ends the loop.
AfterPair_stops(list, i, pair_df) ==
    IF pair_df = NoData \/ i = Len(list) THEN "save" ELSE "analyze"

\* Where the cycle goes after the pair at position i of the list, whatever its
\* fetch gave: to the next pair, or to the save loop after the last one.
AfterPair(list, i, pair_df) == IF i = Len(list) THEN "save" ELSE "analyze"

\* analyze_all_pairs, one turn of its loop: analyze_pair returns None when the
\* pair has no bars, and the loop goes on.
AnalyzeNext(r) ==
    /\ pc[r] = "analyze"
    /\ LET pair == pairs[r][idx[r]]
       IN  \E pair_df \in get_ohlcv_data(pair) :
               /\ IF pair_df = NoData
                  THEN UNCHANGED <<results, fetched>>
                  ELSE /\ results' = [results EXCEPT ![r] =
                                         Put(@, analyze_pair(pair, eth_data[r], pair_df, now))]
                       /\ fetched' = [fetched EXCEPT ![r] = @ \cup {pair}]
               /\ pc' = [pc EXCEPT ![r] = AfterPair(pairs[r], idx[r], pair_df)]
    /\ idx' = [idx EXCEPT ![r] = @ + 1]
    /\ UNCHANGED <<store, now, cycles, pairs, eth_data, saved, reply, resp, degraded,
                   upserted, store_failed, passed, calc>>

\* What the trigger answers and logs when update_metrics returns.
Completed(r) ==
    IF r = "http"
    THEN [code |-> 200, status |-> "Update completed",
          pairs_updated |-> Len(pairs[r]), logged |-> "Metrics update completed"]
    ELSE [code |-> 0, status |-> "", pairs_updated |-> 0,
          logged |-> "Metrics update completed"]

\* Raised when update_metrics logs the exception and does not raise it again.
Raised_swallowed(r) == Completed(r)

\* What the trigger answers and logs when update_metrics raises.
Raised(r) ==
    IF r = "http"
    THEN [code |-> 500, status |-> "error", pairs_updated |-> 0,
          logged |-> "Error in manual update"]
    ELSE [code |-> 0, status |-> "", pairs_updated |-> 0,
          logged |-> "Scheduled update failed"]

\* update_metrics, one turn of its save loop. A save_metrics that raises ends
\* the cycle: the exception goes to the trigger.
SaveNext(r) ==
    /\ pc[r] = "save"
    /\ saved[r] < Len(results[r])
    /\ \E ok \in BOOLEAN :
           IF ok
           THEN /\ store' = save_metrics(store, results[r][saved[r] + 1])
                /\ passed' = passed \cup {results[r][saved[r] + 1]}
                /\ upserted' = [upserted EXCEPT ![r] = @ \cup {results[r][saved[r] + 1].pair}]
                /\ saved' = [saved EXCEPT ![r] = @ + 1]
                /\ UNCHANGED <<pc, reply, store_failed>>
           ELSE /\ pc' = [pc EXCEPT ![r] = "done"]
                /\ reply' = [reply EXCEPT ![r] = Raised(r)]
                /\ store_failed' = [store_failed EXCEPT ![r] = TRUE]
                /\ UNCHANGED <<store, passed, upserted, saved>>
    /\ UNCHANGED <<now, cycles, pairs, idx, eth_data, results, resp, degraded, fetched,
                   calc>>

\* update_metrics returns and the trigger answers.
Return(r) ==
    /\ pc[r] = "save"
    /\ saved[r] = Len(results[r])
    /\ pc' = [pc EXCEPT ![r] = "done"]
    /\ reply' = [reply EXCEPT ![r] = Completed(r)]
    /\ UNCHANGED <<store, now, cycles, pairs, idx, eth_data, results, saved, resp,
                   degraded, fetched, upserted, store_failed, passed, calc>>

\* The thread is free again.
Finish(r) ==
    /\ pc[r] = "done"
    /\ pc' = [pc EXCEPT ![r] = "idle"]
    /\ pairs' = [pairs EXCEPT ![r] = <<>>]
    /\ idx' = [idx EXCEPT ![r] = 1]
    /\ eth_data' = [eth_data EXCEPT ![r] = NoEth]
    /\ results' = [results EXCEPT ![r] = <<>>]
    /\ saved' = [saved EXCEPT ![r] = 0]
    /\ reply' = [reply EXCEPT ![r] = NoReply]
    /\ degraded' = [degraded EXCEPT ![r] = FALSE]
    /\ fetched' = [fetched EXCEPT ![r] = {}]
    /\ upserted' = [upserted EXCEPT ![r] = {}]
    /\ store_failed' = [store_failed EXCEPT ![r] = FALSE]
    /\ UNCHANGED <<store, now, cycles, resp, passed, calc>>

\* ------------------------------------------------------------------ the read endpoints

\* round(x, 4) on a float; on None it raises TypeError.
Round4(x) == LET q == Unit \div (10 ^ 4) IN ((x + (q \div 2)) \div q) * q

Found(m) ==
    [leverage_adjustment |-> Round4(m.leverage_adjustment),
     volatility_ratio |-> Round4(m.volatility_ratio),
     correlation_with_eth |-> Round4(m.correlation_with_eth),
     avg_daily_movement |-> Round4(m.avg_daily_movement),
     recommended_leverage |-> m.recommended_leverage,
     last_updated |-> isoformat(m.last_updated)]

NotFound ==
    [error |-> "Pair not found in database",
     leverage_adjustment |-> Unit,
     recommended_leverage |-> 5]

\* Building a pair's entry raises when a value to round is None.
RoundRaises(m) ==
    \/ m.leverage_adjustment = NULL
    \/ m.volatility_ratio = NULL
    \/ m.correlation_with_eth = NULL
    \/ m.avg_daily_movement = NULL

\* The response of POST /leverage-adjustment for the body's pairs, given
\* whether the database can be read.
LeverageResponse(table, list, db_up) ==
    IF list = <<>>
    THEN [endpoint |-> "leverage-adjustment", code |-> 400, request |-> list,
          db_up |-> db_up, body |-> <<>>]
    ELSE IF ~db_up
    THEN [endpoint |-> "leverage-adjustment", code |-> 500, request |-> list,
          db_up |-> db_up, body |-> <<>>]
    ELSE LET metrics == get_metrics(table, list)
         IN  IF \E p \in DOMAIN metrics : RoundRaises(metrics[p])
             THEN [endpoint |-> "leverage-adjustment", code |-> 500, request |-> list,
                   db_up |-> db_up, body |-> <<>>]
             ELSE [endpoint |-> "leverage-adjustment", code |-> 200, request |-> list,
                   db_up |-> db_up,
                   body |-> [p \in Range(list) |->
                                IF p \in DOMAIN metrics THEN Found(metrics[p])
                                ELSE NotFound]]

\* The client of the read endpoints sends a request when it has read the
\* response to its last one; the handler answers in one step.
Read(response) ==
    /\ resp = NoResponse
    /\ resp' = response
    /\ UNCHANGED <<store, now, cycles, cycle, passed, calc>>

\* A refresh cycle is in flight on thread r.
Active(r) == pc[r] \in {"benchmark", "analyze", "save"}

\* get_leverage_adjustment when it waits for the refresh cycles to end.
get_leverage_adjustment_waits(list) ==
    /\ \A r \in Threads : ~Active(r)
    /\ \E db_up \in BOOLEAN : Read(LeverageResponse(store, list, db_up))

\* The row of the fallback values for a pair.
FallbackRow(pair) ==
    [pair |-> pair, leverage_adjustment |-> Unit, volatility_ratio |-> Unit,
     correlation_with_eth |-> 0, avg_daily_movement |-> 0,
     recommended_leverage |-> 5, last_updated |-> isoformat(now)]

\* get_leverage_adjustment when it saves the fallback of a pair it did not find.
get_leverage_adjustment_persists(list) ==
    /\ resp = NoResponse
    /\ \E db_up \in BOOLEAN :
           /\ resp' = LeverageResponse(store, list, db_up)
           /\ store' = IF db_up
                        THEN [p \in DOMAIN store \cup Range(list) |->
                                 IF p \in DOMAIN store THEN store[p] ELSE FallbackRow(p)]
                        ELSE store
    /\ UNCHANGED <<now, cycles, cycle, passed, calc>>

\* POST /leverage-adjustment
get_leverage_adjustment(list) ==
    \E db_up \in BOOLEAN : Read(LeverageResponse(store, list, db_up))

\* GET /pairs
get_available_pairs ==
    \E db_up \in BOOLEAN :
        Read(IF db_up
             THEN [endpoint |-> "pairs", code |-> 200, db_up |-> db_up,
                   body |-> [pairs |-> get_all_pairs(store),
                             count |-> Cardinality(get_all_pairs(store))]]
             ELSE [endpoint |-> "pairs", code |-> 500, db_up |-> db_up, body |-> <<>>])

\* GET /health
health_check ==
    \E db_up \in BOOLEAN, exchange_up \in BOOLEAN :
        Read(IF db_up
             THEN [endpoint |-> "health", code |-> 200, db_up |-> db_up,
                   body |-> [status |-> "healthy",
                             database_pairs |-> Cardinality(get_all_pairs(store)),
                             exchange_status |-> IF exchange_up THEN "connected"
                                                 ELSE "disconnected"]]
             ELSE [endpoint |-> "health", code |-> 503, db_up |-> db_up,
                   body |-> [status |-> "unhealthy"]])

\* The client reads the response.
Receive ==
    /\ resp # NoResponse
    /\ resp' = NoResponse
    /\ UNCHANGED <<store, now, cycles, cycle, passed, calc>>

\* The steps of the refresh cycles.
Refresh ==
    \/ \E r \in Threads : scheduled_update(r)
    \/ \E r \in Threads, list \in UpdateRequests : manual_update(r, list)
    \/ \E r \in Threads : FetchBenchmark(r)
    \/ \E r \in Threads : AnalyzeNext(r)
    \/ \E r \in Threads : SaveNext(r)
    \/ \E r \in Threads : Return(r)
    \/ \E r \in Threads : Finish(r)

Next ==
    \/ Refresh
    \/ \E list \in LookupRequests : get_leverage_adjustment(list)
    \/ get_available_pairs
    \/ health_check
    \/ Receive

\* The refresh cycles and the read endpoints together.
Spec == Init /\ [][Next]_vars

\* The refresh cycles alone: the read endpoints change nothing but resp.
SpecRefresh == Init /\ [][Refresh]_vars

\* ------------------------------------------------------------------ functions on their own

\* The arguments recommend_leverage is called with: the adjustments of the
\* clamp's range [0.1, 2.0], and volatility ratios at and around the two
\* penalty thresholds.
Adjustments == {(Unit \div 10) + 25 * k : k \in 0..AdjSteps}

Ratios == {0, Unit, (12 * Unit) \div 10, ((12 * Unit) \div 10) + 1,
           (15 * Unit) \div 10, ((15 * Unit) \div 10) + 1, 3 * Unit}

Calls_recommend_leverage ==
    {[fn |-> "recommend_leverage", leverage_adjustment |-> a, volatility_ratio |-> v] :
        a \in Adjustments, v \in Ratios}

\* The arguments calculate_leverage_adjustment is called with: volatilities
\* and movements from 0 up, of the instrument and of the benchmark.
Volatilities == {0, (4 * Unit) \div 10, (8 * Unit) \div 10, (24 * Unit) \div 10, 20 * Unit}

EthVolatilities == {0, (4 * Unit) \div 10, (8 * Unit) \div 10}

Movements == {0, (25 * Unit) \div 1000, (5 * Unit) \div 100, Unit}

EthMovements == {0, (5 * Unit) \div 100}

Calls_calculate_leverage_adjustment ==
    {[fn |-> "calculate_leverage_adjustment", pair_volatility |-> pv, eth_volatility |-> ev,
      pair_avg_movement |-> pm, eth_avg_movement |-> em] :
        pv \in Volatilities, ev \in EthVolatilities, pm \in Movements, em \in EthMovements}

\* The arguments analyze_pair is called with in a cycle: a pair, the bars of
\* its fetch, and the ETH reference of the cycle, from bars or the defaults.
Calls_analyze_pair ==
    {[fn |-> "analyze_pair", pair |-> p, eth_df |-> e, pair_df |-> d] :
        p \in {BTC, ETH, NEWLY}, e \in get_ohlcv_data(ETH),
        d \in Feed(BTC) \cup Feed(ETH) \cup Feed(NEWLY)}

\* The return series calculate_correlation is called with: those of the
\* catalogue's histories (ten returns, or none for the single bar), of two
\* histories of ten bars (nine returns), and the dummy series of the defaults.
ReturnSeries ==
    {calculate_daily_returns(df) :
        df \in {Calm, Wild, Flat, Single, SubSeq(Calm, 1, 10), SubSeq(Wild, 2, 11)}}
        \cup {EthData(NoData).returns}

Calls_calculate_correlation ==
    {[fn |-> "calculate_correlation", returns1 |-> a, returns2 |-> b] :
        a \in ReturnSeries, b \in ReturnSeries}

\* PairMetrics values save_metrics is given: the records of BTC and of the
\* newly listed pair (a single bar, a flat market), computed at two times.
PairMetricsValues ==
    {analyze_pair(c.pair, EthData(c.eth_df), c.pair_df, t) :
        c \in {c \in Calls_analyze_pair :
                  c.pair # ETH /\ c.pair_df \in Feed(c.pair) /\ c.eth_df # NoData},
        t \in 1..2}

\* The table after the save_metrics calls of a sequence, in order.
RECURSIVE Upserted(_, _)
Upserted(table, upserts) ==
    IF upserts = <<>> THEN table
    ELSE Upserted(save_metrics(table, Head(upserts)), Tail(upserts))

\* One or more save_metrics calls on a new table.
Calls_save_metrics ==
    {[fn |-> "save_metrics", upserts |-> u] :
        u \in SeqsUpTo(PairMetricsValues, MaxUpserts) \ {<<>>}}

\* A get_metrics call after save_metrics calls on a new table.
Calls_get_metrics ==
    {[fn |-> "get_metrics", upserts |-> u, pairs |-> list] :
        u \in SeqsUpTo(PairMetricsValues, MaxUpserts),
        list \in SeqsUpTo({BTC, NEWLY, UNKNOWN}, MaxLen)}

\* The calls of the functions on their own.
Calls ==
    Calls_recommend_leverage \cup Calls_calculate_leverage_adjustment
        \cup Calls_analyze_pair \cup Calls_save_metrics \cup Calls_get_metrics
        \cup Calls_calculate_correlation

\* One function is about to be called with arguments of its domain.
InitCalc ==
    /\ Start
    /\ call \in Calls
    /\ returned = FALSE
    /\ out = 0

\* The call returns value.
Returns(value) ==
    /\ ~returned
    /\ returned' = TRUE
    /\ out' = value
    /\ UNCHANGED <<call, store, now, cycles, cycle, resp, passed>>

call_recommend_leverage ==
    /\ call.fn = "recommend_leverage"
    /\ Returns(recommend_leverage(call.leverage_adjustment, call.volatility_ratio))

call_calculate_leverage_adjustment ==
    /\ call.fn = "calculate_leverage_adjustment"
    /\ Returns(calculate_leverage_adjustment(call.pair_volatility, call.eth_volatility,
                                             call.pair_avg_movement, call.eth_avg_movement))

call_analyze_pair ==
    /\ call.fn = "analyze_pair"
    /\ Returns(analyze_pair(call.pair, EthData(call.eth_df), call.pair_df, now))

\* The save_metrics calls of the sequence: the table after the last of them.
call_save_metrics ==
    /\ call.fn = "save_metrics"
    /\ Returns(Upserted(<<>>, call.upserts))

call_get_metrics ==
    /\ call.fn = "get_metrics"
    /\ Returns(get_metrics(Upserted(<<>>, call.upserts), call.pairs))

call_calculate_correlation ==
    /\ call.fn = "calculate_correlation"
    /\ Returns(calculate_correlation(call.returns1, call.returns2))

NextCalc ==
    \/ call_recommend_leverage
    \/ call_calculate_leverage_adjustment
    \/ call_analyze_pair
    \/ call_save_metrics
    \/ call_get_metrics
    \/ call_calculate_correlation

\* Each function of the module called once, on its own.
SpecCalc == InitCalc /\ [][NextCalc]_vars

\* ------------------------------------------------------------------ claims

\* C1: at most one refresh cycle is in flight at a time, across the scheduled
\* trigger and the on-demand trigger.
C1_AtMostOneRefresh == Cardinality({r \in Threads : Active(r)}) <= 1

\* The entry of a lookup response for a stored row.
EntryOf(metrics) == Found(get_metrics(save_metrics(<<>>, metrics), <<metrics.pair>>)[metrics.pair])

\* C2: every row of the table is, in all its columns together, the row of one
\* PairMetrics given to a committed save_metrics call for that pair, and every
\* found entry of a lookup response is the entry of one such value.
C2_WholeRecords ==
    /\ \A p \in DOMAIN store : \E m \in passed : m.pair = p /\ store[p] = Row(m)
    /\ (resp.endpoint = "leverage-adjustment" /\ resp.code = 200) =>
           \A p \in DOMAIN resp.body :
               \/ resp.body[p] = NotFound
               \/ \E m \in passed : m.pair = p /\ resp.body[p] = EntryOf(m)

\* Two cycles in flight have both committed a row for the same pair, with
\* different values, and a lookup has returned the pair's entry.
C2_Witness ==
    /\ \A r \in Threads : Active(r)
    /\ \E p \in DOMAIN store :
           /\ \A r \in Threads : p \in upserted[r]
           /\ Cardinality({m \in passed : m.pair = p}) >= 2
           /\ resp.endpoint = "leverage-adjustment"
           /\ resp.code = 200
           /\ p \in DOMAIN resp.body
           /\ resp.body[p] # NotFound

\* C3: a lookup of a list that is not empty, with the database readable,
\* answers with an entry for every requested pair: the stored record's values
\* for a pair that has been saved, the fallback for a pair that has not.
C3_LookupTotal ==
    (resp.endpoint = "leverage-adjustment" /\ resp.request # <<>> /\ resp.db_up) =>
        /\ resp.code = 200
        /\ DOMAIN resp.body = Range(resp.request)
        /\ \A p \in DOMAIN resp.body :
               IF \E m \in passed : m.pair = p
               THEN \E m \in passed : m.pair = p /\ resp.body[p] = EntryOf(m)
               ELSE resp.body[p] = NotFound

\* C4: a pair without bars is skipped and the batch goes on: when a cycle ends
\* without a store failure, every pair of the list has had its turn, and every
\* requested pair whose fetch returned bars has a row committed by this cycle,
\* whichever other pairs of the list had none.
C4_FailureIsolation ==
    \A r \in Threads :
        (pc[r] = "done" /\ ~store_failed[r]) =>
            /\ idx[r] = Len(pairs[r]) + 1
            /\ fetched[r] \subseteq upserted[r]
            /\ upserted[r] \subseteq DOMAIN store

\* A cycle over <<NEW, BTC>> has ended: NEW, first in the list, had no bars,
\* and BTC, after it, is committed.
C4_Witness ==
    \E r \in Threads :
        /\ pc[r] = "done"
        /\ ~store_failed[r]
        /\ pairs[r] = <<NEWLY, BTC>>
        /\ fetched[r] = {BTC}
        /\ upserted[r] = {BTC}

\* The reference values of a cycle whose ETH fetch returned no bars.
DefaultReference ==
    [volatility |-> 8000, avg_movement |-> 500, returns |-> <<<<0, 0>>>>]

\* C5: a cycle whose ETH fetch returned no bars goes on with the reference
\* volatility 0.8 and movement 0.05: every record it computes is computed
\* against them, and when it ends without a store failure it has completed and
\* committed a row for every requested pair whose own fetch returned bars.
C5_DegradedMode ==
    \A r \in Threads :
        degraded[r] =>
            /\ pc[r] \in {"analyze", "save", "done"}
            /\ eth_data[r].volatility = 8000
            /\ eth_data[r].avg_movement = 500
            /\ \A i \in 1..Len(results[r]) :
                   \E pair_df \in Feed(results[r][i].pair) :
                       results[r][i] =
                           analyze_pair(results[r][i].pair, DefaultReference,
                                        pair_df, results[r][i].last_updated)
            /\ (pc[r] = "done" /\ ~store_failed[r]) =>
                   /\ reply[r].logged = "Metrics update completed"
                   /\ fetched[r] \subseteq upserted[r]

\* A degraded cycle has ended and has committed a row.
C5_Witness ==
    \E r \in Threads :
        /\ degraded[r]
        /\ pc[r] = "done"
        /\ ~store_failed[r]
        /\ upserted[r] # {}

\* C6: when a save_metrics of a cycle raises, the cycle ends there, the rest
\* of its records unsaved, and the trigger gets the error: POST
\* /update-metrics answers 500 and not "Update completed", the scheduled
\* trigger logs the failure.
C6_StoreFailureSurfaces ==
    \A r \in Threads :
        store_failed[r] =>
            /\ pc[r] = "done"
            /\ saved[r] < Len(results[r])
            /\ Cardinality(upserted[r]) = saved[r]
            /\ reply[r].status # "Update completed"
            /\ r = "http" => reply[r].code = 500
            /\ r = "scheduler" => reply[r].logged = "Scheduled update failed"

\* The second save_metrics of an on-demand cycle has raised.
C6_Witness ==
    /\ store_failed["http"]
    /\ saved["http"] = 1
    /\ Len(results["http"]) = 2

\* C7: when a cycle ends with a pair skipped or with a store failure, every
\* record it committed is, as it ends, in the table with the value this cycle
\* wrote.
C7_PartialProgressKept ==
    [][\A r \in Threads :
          (/\ pc[r] # "done"
           /\ pc'[r] = "done"
           /\ (store_failed'[r] \/ fetched'[r] # Range(pairs'[r]))) =>
              \A i \in 1..saved'[r] :
                  /\ results'[r][i].pair \in DOMAIN store'
                  /\ store'[results'[r][i].pair] = Row(results'[r][i])]_vars

\* C8: pairs_updated in the answer of POST /update-metrics is the number of
\* pairs whose row the cycle committed.
C8_PairsUpdatedCountsUpserts ==
    (pc["http"] = "done" /\ reply["http"].code = 200) =>
        reply["http"].pairs_updated = Cardinality(upserted["http"])

\* C9: while a refresh cycle is in flight, each read endpoint can answer at
\* once, from the rows committed so far.
C9_ReadsNeverBlock ==
    ((\E r \in Threads : Active(r)) /\ resp = NoResponse) =>
        /\ \A list \in LookupRequests :
               ENABLED (get_leverage_adjustment(list)
                        /\ resp' = LeverageResponse(store, list, TRUE))
        /\ ENABLED (get_available_pairs /\ resp'.code = 200
                    /\ resp'.body.pairs = DOMAIN store)
        /\ ENABLED (health_check /\ resp'.code = 200
                    /\ resp'.body.database_pairs = Cardinality(DOMAIN store))

\* A lookup has returned the row a cycle committed, between two of its upserts.
C9_Witness ==
    \E r \in Threads :
        /\ pc[r] = "save"
        /\ saved[r] = 1
        /\ Len(results[r]) = 2
        /\ resp.endpoint = "leverage-adjustment"
        /\ resp.code = 200
        /\ results[r][1].pair \in DOMAIN resp.body
        /\ resp.body[results[r][1].pair] = EntryOf(results[r][1])

\* C10: POST /leverage-adjustment answers with an error only for an empty
\* list (400) or when the database cannot be read.
C10_QueryErrorsOnlyOnBadRequest ==
    resp.endpoint = "leverage-adjustment" =>
        \/ resp.code = 200
        \/ resp.code = 400 /\ resp.request = <<>>
        \/ resp.code = 500 /\ ~resp.db_up

\* C11: the volatility of an empty returns series is 0, so a record computed
\* from a history of a single bar has a volatility of 0, and its stored
\* volatility_ratio is a real number >= 0, 0 when the reference volatility is
\* positive.
C11_SingleBarVolatilityZero ==
    \A r \in Threads :
        \A i \in 1..Len(results[r]) :
            (/\ Single \in Feed(results[r][i].pair)
             /\ results[r][i] = analyze_pair(results[r][i].pair, eth_data[r], Single,
                                             results[r][i].last_updated)) =>
                /\ calculate_volatility(calculate_daily_returns(Single)) = 0
                /\ Row(results[r][i]).volatility_ratio # NULL
                /\ Row(results[r][i]).volatility_ratio >= 0
                /\ Gt(eth_data[r].volatility, 0) =>
                       Row(results[r][i]).volatility_ratio = 0

\* The ladder of leverage levels.
Ladder == {1, 2, 3, 5, 10, 20, 25, 50}

\* 10 * adjustment, with the penalty of the volatility ratio, in 1 / (10 * Unit).
Scaled(adjustment, ratio) ==
    IF ratio > (15 * Unit) \div 10 THEN 6 * 10 * adjustment
    ELSE IF ratio > (12 * Unit) \div 10 THEN 8 * 10 * adjustment
    ELSE 10 * 10 * adjustment

\* The ladder value nearest to scaled, the lower one of two at the same distance.
Snap(scaled) ==
    CHOOSE l \in Ladder :
        \A m \in Ladder :
            \/ Abs(l * 10 * Unit - scaled) < Abs(m * 10 * Unit - scaled)
            \/ Abs(l * 10 * Unit - scaled) = Abs(m * 10 * Unit - scaled) /\ l <= m

\* C12: for every adjustment in [0.1, 2.0] and volatility ratio >= 0,
\* recommend_leverage returns the ladder value nearest to 10 * adjustment
\* (times 0.6 above a ratio of 1.5, times 0.8 above 1.2), the lower on a tie,
\* clamped to [1, 25]; adjustment 1.0 with ratio 1.0 gives 10, adjustment 0.5
\* with ratio 3.0 gives 3.
C12_RecommendedLeverageAlgorithm ==
    (/\ returned
     /\ call.fn = "recommend_leverage"
     /\ call.leverage_adjustment >= Unit \div 10
     /\ call.leverage_adjustment <= 2 * Unit
     /\ call.volatility_ratio >= 0) =>
        LET snapped == Snap(Scaled(call.leverage_adjustment, call.volatility_ratio))
        IN  /\ out = (IF snapped > 25 THEN 25 ELSE IF snapped < 1 THEN 1 ELSE snapped)
            /\ (call.leverage_adjustment = Unit /\ call.volatility_ratio = Unit) =>
                   out = 10
            /\ (call.leverage_adjustment = Unit \div 2 /\ call.volatility_ratio = 3 * Unit) =>
                   out = 3

\* recommend_leverage has returned 5 for a scaled leverage of 7.5, as far from
\* 5 as from 10.
C12_Witness ==
    /\ returned
    /\ call.fn = "recommend_leverage"
    /\ call.leverage_adjustment = (75 * Unit) \div 100
    /\ call.volatility_ratio = Unit
    /\ out = 5

\* C13: every row of the table, and every record a cycle has computed, has a
\* recommended_leverage in {1, 2, 3, 5, 10, 20, 25}, whether its cycle had the
\* ETH bars or went on with the defaults.
C13_RecommendedLeverageOnLadder ==
    /\ \A p \in DOMAIN store :
           store[p].recommended_leverage \in {1, 2, 3, 5, 10, 20, 25}
    /\ \A r \in Threads :
           \A i \in 1..Len(results[r]) :
               results[r][i].recommended_leverage \in {1, 2, 3, 5, 10, 20, 25}

\* The table holds a row committed by a cycle with the ETH bars and a row
\* committed by a cycle without them, of different leverage.
C13_Witness ==
    \E r, q \in Threads :
        /\ ~degraded[r]
        /\ degraded[q]
        /\ \E p \in upserted[r], o \in upserted[q] :
               /\ p # o
               /\ store[p] = Row(results[r][1])
               /\ \E i \in 1..saved[q] : store[o] = Row(results[q][i])
               /\ store[p].recommended_leverage # store[o].recommended_leverage

\* C14: calculate_leverage_adjustment returns a value in [0.1, 2.0] for every
\* volatility and movement from 0 up: 1 / risk ratio clamped, with a ratio
\* against a benchmark value of 0 taken as 1.0 and the result for a risk ratio
\* of 0 taken as 1.0; and the row of every record analyze_pair computes has
\* its leverage_adjustment in [0.1, 2.0].
C14_LeverageAdjustmentInRange ==
    /\ (returned /\ call.fn = "calculate_leverage_adjustment") =>
           LET vr == IF call.eth_volatility = 0 THEN Unit
                     ELSE (call.pair_volatility * Unit) \div call.eth_volatility
               mr == IF call.eth_avg_movement = 0 THEN Unit
                     ELSE (call.pair_avg_movement * Unit) \div call.eth_avg_movement
               risk == (vr + mr) \div 2
               inverse == IF risk = 0 THEN Unit ELSE (Unit * Unit) \div risk
           IN  /\ out >= Unit \div 10
               /\ out <= 2 * Unit
               /\ (inverse >= Unit \div 10 /\ inverse <= 2 * Unit) => out = inverse
               /\ inverse < Unit \div 10 => out = Unit \div 10
               /\ inverse > 2 * Unit => out = 2 * Unit
    /\ (returned /\ call.fn = "analyze_pair") =>
           /\ Row(out).leverage_adjustment # NULL
           /\ Row(out).leverage_adjustment >= Unit \div 10
           /\ Row(out).leverage_adjustment <= 2 * Unit

\* calculate_leverage_adjustment has returned the lower end of the range, the
\* upper end, and 1.0 for a risk ratio of 0.
C14_WitnessLow ==
    returned /\ call.fn = "calculate_leverage_adjustment" /\ out = Unit \div 10

C14_WitnessHigh ==
    returned /\ call.fn = "calculate_leverage_adjustment" /\ out = 2 * Unit

C14_Witness ==
    /\ returned
    /\ call.fn = "calculate_leverage_adjustment"
    /\ call.pair_volatility = 0
    /\ call.pair_avg_movement = 0
    /\ call.eth_volatility > 0
    /\ call.eth_avg_movement > 0
    /\ out = Unit

\* The last record of the sequence given for the pair.
LastFor(upserts, p) ==
    upserts[CHOOSE i \in 1..Len(upserts) :
                /\ upserts[i].pair = p
                /\ \A j \in (i + 1)..Len(upserts) : upserts[j].pair # p]

\* C15: save_metrics twice with the same record leaves the table as once, and
\* after any sequence of save_metrics calls the table has one row per pair
\* given, the row of the last record given for that pair.
C15_UpsertIdempotentLastWins ==
    (returned /\ call.fn = "save_metrics") =>
        LET last == call.upserts[Len(call.upserts)]
        IN  /\ save_metrics(out, last) = out
            /\ Upserted(<<>>, Append(call.upserts, last)) = out
            /\ DOMAIN out = {call.upserts[i].pair : i \in 1..Len(call.upserts)}
            /\ \A p \in DOMAIN out :
                   /\ out[p] = Row(LastFor(call.upserts, p))
                   /\ out[p].pair = p

\* Two different records of one pair were saved, then a record of another.
C15_Witness ==
    /\ returned
    /\ call.fn = "save_metrics"
    /\ Len(call.upserts) = 3
    /\ call.upserts[1].pair = call.upserts[2].pair
    /\ call.upserts[1] # call.upserts[2]
    /\ call.upserts[3].pair # call.upserts[1].pair
    /\ out[call.upserts[1].pair] = Row(call.upserts[2])

\* C16: after any sequence of save_metrics calls, get_metrics(pairs) returns a
\* mapping whose keys are the requested pairs that were saved, each with the
\* values of its own row; a pair not requested or never saved has no entry,
\* and a requested pair without a row is left out without an error.
C16_GetMetricsExactlyPresent ==
    (returned /\ call.fn = "get_metrics") =>
        LET upserted_pairs == {call.upserts[i].pair : i \in 1..Len(call.upserts)}
        IN  /\ DOMAIN out = {p \in Range(call.pairs) : p \in upserted_pairs}
            /\ \A p \in DOMAIN out :
                   /\ out[p].pair = p
                   /\ Row(out[p]) = Row(LastFor(call.upserts, p))

\* get_metrics was asked for a saved pair and a pair never saved, with another
\* pair saved and not asked for.
C16_Witness ==
    /\ returned
    /\ call.fn = "get_metrics"
    /\ call.pairs = <<BTC, UNKNOWN>>
    /\ {call.upserts[i].pair : i \in 1..Len(call.upserts)} = {BTC, NEWLY}
    /\ DOMAIN out = {BTC}

\* The index values two series have in common.
CommonIndex(a, b) == {a[i][1] : i \in 1..Len(a)} \cap {b[j][1] : j \in 1..Len(b)}

\* C17: calculate_correlation returns 0.0 whenever the two series have fewer
\* than 10 points at a common index, and analyze_pair without the ETH bars,
\* against the dummy series of the defaults, returns a record whose
\* correlation_with_eth is 0.0.
C17_CorrelationZeroBelowTen ==
    /\ (/\ returned
        /\ call.fn = "calculate_correlation"
        /\ Cardinality(CommonIndex(call.returns1, call.returns2)) < 10) => out = 0
    /\ (returned /\ call.fn = "analyze_pair" /\ call.eth_df = NoData) =>
           /\ out.pair = call.pair
           /\ out.correlation_with_eth = 0
           /\ Row(out).correlation_with_eth = 0

\* calculate_correlation has returned 0 for two series that move together
\* and share nine points.
C17_Witness ==
    /\ returned
    /\ call.fn = "calculate_correlation"
    /\ call.returns1 = calculate_daily_returns(Calm)
    /\ call.returns2 = calculate_daily_returns(SubSeq(Wild, 2, 11))
    /\ Cardinality(CommonIndex(call.returns1, call.returns2)) = 9
    /\ out = 0

\* C18: no row is ever deleted: every pair a save_metrics call has committed
\* a record for has a row in every later state, through refreshes, store
\* failures and reads, and the pairs GET /pairs has answered are pairs of the
\* table ever after.
C18_RecordsNeverDeleted ==
    /\ \A m \in passed : m.pair \in get_all_pairs(store)
    /\ (resp.endpoint = "pairs" /\ resp.code = 200) =>
           resp.body.pairs \subseteq get_all_pairs(store)

\* After a cycle ended by a store failure, GET /pairs has answered some
\* pairs, and the table has since grown by another.
C18_Witness ==
    /\ \E r \in Threads : store_failed[r]
    /\ resp.endpoint = "pairs"
    /\ resp.code = 200
    /\ resp.body.pairs # {}
    /\ resp.body.pairs # get_all_pairs(store)

\* C19: a refresh changes only the rows of the pairs it has computed: a step
\* that adds or changes the row of a pair is the save, by a cycle, of its next
\* record, for a pair of its list whose fetch returned bars; the row of every
\* other pair, not in the list or skipped for want of bars, stays as it was.
C19_RefreshFrame ==
    [][\A p \in Symbols :
          (IF p \in DOMAIN store /\ p \in DOMAIN store'
           THEN store'[p] # store[p]
           ELSE (p \in DOMAIN store) # (p \in DOMAIN store')) =>
              \E r \in Threads :
                  /\ p \in DOMAIN store'
                  /\ pc[r] = "save"
                  /\ saved'[r] = saved[r] + 1
                  /\ results[r][saved'[r]].pair = p
                  /\ store'[p] = Row(results[r][saved'[r]])
                  /\ p \in fetched[r]
                  /\ p \in Range(pairs[r])]_vars

\* A cycle that ran alone has ended: a pair of its list had no bars and still
\* has the row of an earlier cycle, and another pair of its list was saved.
C19_Witness ==
    \E r \in Threads :
        /\ pc[r] = "done"
        /\ \A q \in Threads \ {r} : pc[q] = "idle"
        /\ upserted[r] # {}
        /\ \E p \in Range(pairs[r]) \ fetched[r] :
               /\ p \in DOMAIN store
               /\ fromisoformat(store[p].last_updated) < now

\* C20: the read endpoints change nothing: a step in which one of them answers
\* leaves the table, the clock and every refresh cycle as they were and
\* starts no cycle, and a lookup that answers the fallback for a pair without
\* a row leaves the pair without a row.
C20_ReadPathReadOnly ==
    [][(resp' # resp /\ resp' # NoResponse) =>
          /\ UNCHANGED <<store, now, cycles, cycle, passed>>
          /\ (resp'.endpoint = "leverage-adjustment" /\ resp'.code = 200) =>
                 \A p \in DOMAIN resp'.body :
                     /\ (p \notin DOMAIN store) <=> (resp'.body[p] = NotFound)
                     /\ (p \notin DOMAIN store) => (p \notin DOMAIN store')]_vars

\* A lookup has answered a stored record for one pair and the fallback for
\* another, which still has no row.
C20_Witness ==
    /\ resp.endpoint = "leverage-adjustment"
    /\ resp.code = 200
    /\ \E p, o \in DOMAIN resp.body :
           /\ resp.body[p] = NotFound
           /\ p \notin DOMAIN store
           /\ resp.body[o] # NotFound
           /\ o \in DOMAIN store
====
